---- MODULE Spec2Model ----
(***************************************************************************)
(* Model of window.c: a fractal landscape viewer (GL4Dummies / SDL2).      *)
(*                                                                         *)
(* Numbers.  The program computes in C double and stores into GLfloat.     *)
(* A real value is represented by an integer count of a fixed unit (a     *)
(* lattice); a double keeps the count as it is (rounded to the lattice     *)
(* when a division leaves it), a GLfloat keeps only FloatBits significant  *)
(* binary digits of it (round to nearest, ties to even), so that every     *)
(* store into a GLfloat variable rounds, as in C.                          *)
(***************************************************************************)
EXTENDS Integers, Sequences, FiniteSets, TLC

\* significant binary digits a GLfloat keeps (24 in IEEE binary32)
FloatBits == 11
\* idle() calls explored in one run of the program
MaxTicks == 1
\* idle() calls explored in one run of the camera alone
CamTicks == 2
\* calls of quit() explored
MaxQuits == 3

\* units: counts per world unit, per radian, per 1.0 of sin/cos, per 1.0 of
\* a height sample, and the sub-division used for the quotient x / scale
PosOne == 2^10
AngOne == 2^10
TrigOne == 2^12
HOne == 2^4
QMul == 2^6
GridOne == 2 * PosOne * QMul

Abs(n) == IF n < 0 THEN -n ELSE n

Sign(n) == IF n < 0 THEN -1 ELSE 1

\* a / b in double, rounded to the lattice (nearest, ties away from zero)
RoundDiv(a, b) == Sign(a) * ((2 * Abs(a) + b) \div (2 * b))

RECURSIVE UlpOf(_)
\* spacing of the GLfloat values around a magnitude a >= 0
UlpOf(a) == IF a < 2^FloatBits THEN 1 ELSE 2 * UlpOf(a \div 2)

\* the conversion double -> GLfloat of an assignment to a GLfloat object
ToGLfloat(n) ==
  LET a == Abs(n)
      u == UlpOf(a)
      q == a \div u
      r == a % u
      up == (2 * r > u) \/ (2 * r = u /\ q % 2 = 1)
  IN Sign(n) * (IF up THEN q + 1 ELSE q) * u

\* the conversion (int)x of a value counted in units of one: towards zero
TruncToInt(n, one) == Sign(n) * (Abs(n) \div one)

\* M_PI, in AngOne-ths of a radian
M_PI == 3217

\* sin on [0, M_PI], in TrigOne-ths (libm is external: Bhaskara's rational
\* approximation, exact at 0 and at M_PI/2)
SinHalf(x) ==
  LET p == x * (M_PI - x)
      den == 5 * M_PI * M_PI - 4 * p
  IN ((p \div 8) * TrigOne) \div (den \div 128)

sin(theta) ==
  LET r == theta % (2 * M_PI)
  IN IF r <= M_PI THEN SinHalf(r) ELSE -SinHalf(r - M_PI)

cos(theta) == sin(theta + M_PI \div 2)

(***************************************************************************)
(* The program's objects (window.c, file-scope statics) and the process.   *)
(***************************************************************************)
VARIABLES
  pc,                   \* "main" (before the main loop), "loop", "exited"
  outcome,              \* how the process ended
  atexitFns,            \* the handlers registered with atexit()
  _windowWidth, _windowHeight,
  _landscape_w, _landscape_h, _landscape_scale_xz, _landscape_scale_y,
  _heightMap,           \* NULL or the address gl4dmTriangleEdge returned
  heap,                 \* the buffer behind that address
  _terrain_tId,         \* 0 or the name of the colour-ramp texture
  noise,                \* the noise-texture module (noise.c)
  _cycle, _keys, _cam,
  t0,                   \* get_dt's static t0, in milliseconds
  polygonMode, eau,     \* OpenGL state: GL_POLYGON_MODE, the uniform "eau"
  released,             \* release operations performed so far, per resource
  quitCalls,            \* calls of quit()
  nticks,               \* calls of idle()
  frame,                \* what the last callback submitted to OpenGL
  last,                 \* the callback that ran last, with its input
  wHist,                \* polygon modes before the latest run of 'w' key-downs
  keyEv,                \* per arrow key, its most recent event
  trip                  \* forward-then-backward travel since it began

landVars == <<_landscape_w, _landscape_h, _landscape_scale_xz, _landscape_scale_y>>

winVars == <<_windowWidth, _windowHeight>>

resVars == <<_heightMap, heap, _terrain_tId, noise, released, quitCalls>>

procVars == <<pc, outcome, atexitFns>>

camVars == <<_cycle, _keys, _cam, t0, nticks>>

\* the observers: they record what ran, and take no part in it
obsVars == <<last, wHist, keyEv, trip>>

vars == <<procVars, winVars, landVars, resVars, camVars, polygonMode, eau,
          frame, obsVars>>

NULL == 0

KLEFT == 0

KRIGHT == 1

KUP == 2

KDOWN == 3

\* key codes the window layer may deliver: the seven the program names
\* and one it does not
KeyCodes == {"SDLK_LEFT", "SDLK_RIGHT", "SDLK_UP", "SDLK_DOWN", "w", "q",
             "SDLK_ESCAPE", "a"}

\* elapsed time between two calls of get_dt, in milliseconds, in the whole
\* program: one second
DtSet == {1000}

\* the window size a resize event may carry
WindowSizes == {<<400, 300>>}

\* pointer heights SDL_GetMouseState may report
MouseYs == {0, 300}

\* the height fields the external generator may return here: all samples
\* 0.5, or a pattern in which neighbouring samples differ
HeightMapKinds == {"flat", "ramp"}

NoFrame == <<>>

NoTrip == [phase |-> "none", x0 |-> 0, z0 |-> 0, fwd |-> 0, bwd |-> 0, n |-> 0]

\* the state of the statics at program start (their initialisers)
Init ==
  /\ pc = "main" /\ outcome = "running" /\ atexitFns = <<>>
  /\ _windowWidth = 800 /\ _windowHeight = 600
  /\ _landscape_w = 513 /\ _landscape_h = 513
  /\ _landscape_scale_xz = 100 /\ _landscape_scale_y = 10
  /\ _heightMap = NULL /\ heap = [live |-> FALSE, kind |-> "none"]
  /\ _terrain_tId = 0
  /\ noise = [state |-> "none", bound |-> FALSE]
  /\ _cycle = 0
  /\ _keys = [k \in {KLEFT, KRIGHT, KUP, KDOWN} |-> 0]
  /\ _cam = [x |-> 0, z |-> 0, theta |-> 0]
  /\ t0 = 0
  /\ polygonMode = "GL_FILL" /\ eau = 0
  /\ released = [noise |-> 0, heightMap |-> 0, texture |-> 0, gl4du |-> 0]
  /\ quitCalls = 0 /\ nticks = 0
  /\ last = [op |-> "none", key |-> "", dt |-> 0]
  /\ frame = NoFrame /\ wHist = <<>> /\ trip = NoTrip
  /\ keyEv = [k \in {KLEFT, KRIGHT, KUP, KDOWN} |-> "none"]

(***************************************************************************)
(* heightMapAltitude                                                       *)
(***************************************************************************)
\* sample idx of a w x h buffer of the given kind, in HOne-ths
HeightSample(kind, w, h, idx) ==
  CASE kind = "flat" -> HOne \div 2
    [] kind = "centre" ->
         IF idx = (w \div 2) + (h \div 2) * w THEN HOne ELSE HOne \div 2
    [] OTHER -> (idx * 7) % (HOne + 1)

\* line 296 / 297: the GLfloat the parameter holds after
\*   x = (n >> 1) + (x / _landscape_scale_xz) * (n / 2.0)   (sgn = 1)
\*   z = (n >> 1) - (z / _landscape_scale_xz) * (n / 2.0)   (sgn = -1)
\* in GridOne-ths of a grid step.  x / scale is a GLfloat division; the
\* rest is double, converted by the assignment.
GridCoord(v, n, scale, sgn) ==
  LET quot == ToGLfloat(RoundDiv(v * QMul, scale))
  IN ToGLfloat((n \div 2) * GridOne + sgn * quot * n)

\* the mutation of the range test used by the lookup's checks: the lower
\* bound is not tested
InGrid_NoLower(g, n) == g < n * GridOne

\* line 298, one axis: g >= 0.0 && g < n
InGrid(g, n) == g >= 0 /\ g < n * GridOne

\* the mutation of the index used by the lookup's checks
BufferIndex_Transposed(gx, gz, w) ==
  TruncToInt(gz, GridOne) + TruncToInt(gx, GridOne) * w

\* line 299: ((int)x) + ((int)z) * _landscape_w
BufferIndex(gx, gz, w) ==
  TruncToInt(gx, GridOne) + TruncToInt(gz, GridOne) * w

\* heightMapAltitude(x, z) on the terrain land = [w, h, scale_xz, scale_y,
\* kind]: the value returned (in HOne-ths) and the index read, -1 if none
heightMapAltitude(x, z, land) ==
  LET gx == GridCoord(x, land.w, land.scale_xz, 1)
      gz == GridCoord(z, land.h, land.scale_xz, -1)
      idx == BufferIndex(gx, gz, land.w)
  IN IF InGrid(gx, land.w) /\ InGrid(gz, land.h)
     THEN [y |-> ToGLfloat((2 * HeightSample(land.kind, land.w, land.h, idx)
                            - HOne) * land.scale_y),
           read |-> idx, gx |-> gx, gz |-> gz]
     ELSE [y |-> 0, read |-> -1, gx |-> gx, gz |-> gz]

\* the terrain the statics describe
Land == [w |-> _landscape_w, h |-> _landscape_h,
         scale_xz |-> _landscape_scale_xz, scale_y |-> _landscape_scale_y,
         kind |-> heap.kind]

(***************************************************************************)
(* get_dt and idle                                                         *)
(***************************************************************************)
\* milliseconds per second: get_dt divides by 1000.0
MsPerSec == 1000

dtheta == M_PI

pas == 5

\* dt * dtheta, a double, in AngOne-ths of a radian (dt in milliseconds)
Turn(dt) == RoundDiv(dt * dtheta, MsPerSec)

\* the mutation of the step used by the controller's checks: the speed
\* pas is left out
Step_NoSpeed(dt, t) == RoundDiv(dt * t, (MsPerSec * TrigOne) \div PosOne)

\* the mutation of the step used by the checks of linearity: dt is capped
\* at one second
Step_Capped(dt, t) ==
  RoundDiv((IF dt > MsPerSec THEN MsPerSec ELSE dt) * pas * t,
           (MsPerSec * TrigOne) \div PosOne)

\* dt * pas * sin(theta) or cos(theta), a double, in PosOne-ths; t is the
\* sine or cosine in TrigOne-ths
Step(dt, t) == RoundDiv(dt * pas * t, (MsPerSec * TrigOne) \div PosOne)

\* the mutation of the rotation used by the controller's checks
ThetaAfter_LeftOnly(theta, keys, dt) ==
  IF keys[KLEFT] # 0 \/ keys[KRIGHT] # 0
  THEN ToGLfloat(theta + Turn(dt)) ELSE theta

\* lines 167-172: theta after the two rotation tests
ThetaAfter(theta, keys, dt) ==
  LET t1 == IF keys[KLEFT] # 0 THEN ToGLfloat(theta + Turn(dt)) ELSE theta
  IN IF keys[KRIGHT] # 0 THEN ToGLfloat(t1 - Turn(dt)) ELSE t1

\* the mutation of the translation used by the controller's checks: the
\* backward branch repeats the forward delta
Moved_SameSign(cam, keys, dt) ==
  LET fx == IF keys[KUP] # 0
            THEN ToGLfloat(cam.x + (-Step(dt, sin(cam.theta)))) ELSE cam.x
      fz == IF keys[KUP] # 0
            THEN ToGLfloat(cam.z + (-Step(dt, cos(cam.theta)))) ELSE cam.z
  IN [x |-> IF keys[KDOWN] # 0
            THEN ToGLfloat(fx + (-Step(dt, sin(cam.theta)))) ELSE fx,
      z |-> IF keys[KDOWN] # 0
            THEN ToGLfloat(fz + (-Step(dt, cos(cam.theta)))) ELSE fz,
      theta |-> cam.theta]

\* the mutation of the translation used by the checks of the camera's
\* state: the forward step is taken whether or not the key is held
Moved_Coasting(cam, keys, dt) ==
  LET fx == ToGLfloat(cam.x + (-Step(dt, sin(cam.theta))))
      fz == ToGLfloat(cam.z + (-Step(dt, cos(cam.theta))))
  IN [x |-> IF keys[KDOWN] # 0
            THEN ToGLfloat(fx + Step(dt, sin(cam.theta))) ELSE fx,
      z |-> IF keys[KDOWN] # 0
            THEN ToGLfloat(fz + Step(dt, cos(cam.theta))) ELSE fz,
      theta |-> cam.theta]

\* lines 173-180: the position after the two translation tests, for the
\* theta the rotation tests left in cam
Moved(cam, keys, dt) ==
  LET fx == IF keys[KUP] # 0
            THEN ToGLfloat(cam.x + (-Step(dt, sin(cam.theta)))) ELSE cam.x
      fz == IF keys[KUP] # 0
            THEN ToGLfloat(cam.z + (-Step(dt, cos(cam.theta)))) ELSE cam.z
  IN [x |-> IF keys[KDOWN] # 0
            THEN ToGLfloat(fx + Step(dt, sin(cam.theta))) ELSE fx,
      z |-> IF keys[KDOWN] # 0
            THEN ToGLfloat(fz + Step(dt, cos(cam.theta))) ELSE fz,
      theta |-> cam.theta]

\* the mutation of idle's order used by the checks of that order: the
\* translation tests come first, the rotation tests after them
IdleCam_MoveFirst(cam, keys, dt) ==
  [Moved(cam, keys, dt) EXCEPT !.theta = ThetaAfter(cam.theta, keys, dt)]

\* lines 167-180: the camera after one idle() with elapsed time dt
IdleCam(cam, keys, dt) ==
  Moved([cam EXCEPT !.theta = ThetaAfter(cam.theta, keys, dt)], keys, dt)

OnlyKey(keys, k) == \A j \in DOMAIN keys : (keys[j] # 0) <=> (j = k)

\* the travel monitor: a run of forward-only ticks followed by a run of
\* backward-only ticks, with the position it began at and the time spent
TripAfter(tr, cam, keys, dt) ==
  IF OnlyKey(keys, KUP)
  THEN IF tr.phase = "fwd"
       THEN [tr EXCEPT !.fwd = @ + dt, !.n = @ + 1]
       ELSE [phase |-> "fwd", x0 |-> cam.x, z0 |-> cam.z, fwd |-> dt,
             bwd |-> 0, n |-> 1]
  ELSE IF OnlyKey(keys, KDOWN) /\ tr.phase \in {"fwd", "bwd"}
       THEN [tr EXCEPT !.phase = "bwd", !.bwd = @ + dt, !.n = @ + 1]
       ELSE NoTrip

\* the mutation of idle used by the checks of the render cycle: line 166
\* assigns dt where it should add it
idle_CycleIsDt(dt) ==
  /\ pc = "loop"
  /\ nticks' = nticks + 1
  /\ t0' = t0 + dt
  /\ _cycle' = ToGLfloat(dt)
  /\ _cam' = IdleCam(_cam, _keys, dt)
  /\ frame' = NoFrame
  /\ UNCHANGED <<procVars, winVars, landVars, resVars, _keys, polygonMode, eau>>

\* idle(): dt = get_dt() with dt milliseconds on the clock since t0
idle(dt) ==
  /\ pc = "loop"
  /\ nticks' = nticks + 1
  /\ t0' = t0 + dt
  /\ _cycle' = ToGLfloat(_cycle + dt)
  /\ _cam' = IdleCam(_cam, _keys, dt)
  /\ frame' = NoFrame
  /\ UNCHANGED <<procVars, winVars, landVars, resVars, _keys, polygonMode, eau>>

(***************************************************************************)
(* The noise-texture module (noise.c): an opaque pool with the life cycle  *)
(* init / use / unuse / free; its release is guarded by an "allocated"     *)
(* check, as every release of the shutdown is.                             *)
(***************************************************************************)
initNoiseTextures(n) == [n EXCEPT !.state = "ready"]

useNoiseTextures(n) == [n EXCEPT !.bound = TRUE]

unuseNoiseTextures(n) == [n EXCEPT !.bound = FALSE]

\* the pool after freeNoiseTextures, and whether it released anything
freeNoiseTextures(n) ==
  IF n.state = "ready"
  THEN [noise |-> [state |-> "freed", bound |-> FALSE], freed |-> 1]
  ELSE [noise |-> n, freed |-> 0]

(***************************************************************************)
(* quit, exit, main                                                        *)
(***************************************************************************)
\* the mutation of quit used by the shutdown's checks: the buffer is
\* freed but the pointer is left as it was
quit_KeepsPointer ==
  /\ quitCalls' = quitCalls + 1
  /\ noise' = freeNoiseTextures(noise).noise
  /\ _heightMap' = _heightMap
  /\ heap' = IF _heightMap # NULL THEN [heap EXCEPT !.live = FALSE] ELSE heap
  /\ _terrain_tId' = 0
  /\ released' = [noise |-> released.noise + freeNoiseTextures(noise).freed,
                  heightMap |-> released.heightMap
                                + (IF _heightMap # NULL THEN 1 ELSE 0),
                  texture |-> released.texture
                              + (IF _terrain_tId # 0 THEN 1 ELSE 0),
                  gl4du |-> released.gl4du + 1]

\* quit(), lines 269-280
quit ==
  /\ quitCalls' = quitCalls + 1
  /\ noise' = freeNoiseTextures(noise).noise
  /\ _heightMap' = NULL
  /\ heap' = IF _heightMap # NULL THEN [heap EXCEPT !.live = FALSE] ELSE heap
  /\ _terrain_tId' = 0
  /\ released' = [noise |-> released.noise + freeNoiseTextures(noise).freed,
                  heightMap |-> released.heightMap
                                + (IF _heightMap # NULL THEN 1 ELSE 0),
                  texture |-> released.texture
                              + (IF _terrain_tId # 0 THEN 1 ELSE 0),
                  gl4du |-> released.gl4du + 1]

\* the mutation of exit used by the shutdown's checks: the handlers
\* are not run
exit_NoHandlers(how) ==
  /\ pc' = "exited" /\ outcome' = how
  /\ UNCHANGED <<atexitFns, resVars>>

\* the mutation of exit used by the checks of the buffer's life: the
\* handlers run, but the process goes on
exit_GoesOn(how) ==
  /\ UNCHANGED <<pc, outcome, atexitFns>>
  /\ IF atexitFns # <<>> THEN quit ELSE UNCHANGED resVars

\* exit(), and the return from main: the handlers registered with atexit
\* run, then the process ends
exit(how) ==
  /\ pc' = "exited" /\ outcome' = how
  /\ UNCHANGED atexitFns
  /\ IF atexitFns # <<>> THEN quit ELSE UNCHANGED resVars

\* the mutation of main used by the startup's checks: line 132 is
\* missing, and a failed IMG_Load goes unnoticed
main_NoAssert(windowOk, imgOk, kind) ==
  /\ pc = "main"
  /\ UNCHANGED <<winVars, landVars, camVars, polygonMode, eau, frame,
                 released, quitCalls>>
  /\ IF ~windowOk
     THEN exit("return 1")
     ELSE /\ _heightMap' = 1
          /\ heap' = [live |-> TRUE, kind |-> kind]
          /\ _terrain_tId' = 1
          /\ noise' = initNoiseTextures(noise)
          /\ atexitFns' = <<"quit">>
          /\ pc' = "loop" /\ UNCHANGED outcome

\* main() up to the main loop, init() included.  windowOk: whether
\* gl4duwCreateWindow succeeds; imgOk: whether IMG_Load("alt.png") does;
\* kind: the height field gl4dmTriangleEdge generates.
main(windowOk, imgOk, kind) ==
  /\ pc = "main"
  /\ UNCHANGED <<winVars, landVars, camVars, polygonMode, eau, frame,
                 released, quitCalls>>
  /\ IF ~windowOk
     THEN \* line 87: return 1, nothing registered with atexit
          /\ exit("return 1")
     ELSE \* init(): lines 121 and 126 allocate, then line 132 asserts
          /\ _heightMap' = 1
          /\ heap' = [live |-> TRUE, kind |-> kind]
          /\ _terrain_tId' = 1
          /\ IF ~imgOk
             THEN \* assert(t) fails: abort(), no atexit handler runs
                  /\ pc' = "exited" /\ outcome' = "abort"
                  /\ UNCHANGED <<atexitFns, noise>>
             ELSE /\ noise' = initNoiseTextures(noise)
                  /\ atexitFns' = <<"quit">>
                  /\ pc' = "loop" /\ UNCHANGED outcome

\* gl4duwMainLoop returns: main returns 0
MainLoopReturns ==
  /\ pc = "loop"
  /\ exit("return 0")
  /\ frame' = NoFrame
  /\ UNCHANGED <<winVars, landVars, camVars, polygonMode, eau>>

(***************************************************************************)
(* keydown, keyup, resize                                                  *)
(***************************************************************************)
ArrowIndex(keycode) ==
  CASE keycode = "SDLK_LEFT" -> KLEFT
    [] keycode = "SDLK_RIGHT" -> KRIGHT
    [] keycode = "SDLK_UP" -> KUP
    [] keycode = "SDLK_DOWN" -> KDOWN

Arrows == {"SDLK_LEFT", "SDLK_RIGHT", "SDLK_UP", "SDLK_DOWN"}

\* the mutation of the toggle used by its checks: the else branch sets
\* GL_LINE too
TogglePolygonMode_Stuck(v0) == IF v0 = "GL_FILL" THEN "GL_LINE" ELSE "GL_LINE"

\* lines 200-204: the mode set after reading v[0] back
TogglePolygonMode(v0) == IF v0 = "GL_FILL" THEN "GL_LINE" ELSE "GL_FILL"

\* the mutation of the key-down switch used by the key checks: the case
\* of SDLK_UP falls through into the case of SDLK_DOWN
KeysAfterDown_FallThrough(keys, keycode) ==
  IF keycode = "SDLK_UP"
  THEN [keys EXCEPT ![KUP] = 1, ![KDOWN] = 1]
  ELSE IF keycode \in Arrows THEN [keys EXCEPT ![ArrowIndex(keycode)] = 1]
       ELSE keys

\* lines 187-198: _keys after the switch of keydown
KeysAfterDown(keys, keycode) ==
  IF keycode \in Arrows THEN [keys EXCEPT ![ArrowIndex(keycode)] = 1]
  ELSE keys

\* lines 217-228: _keys after the switch of keyup
KeysAfterUp(keys, keycode) ==
  IF keycode \in Arrows THEN [keys EXCEPT ![ArrowIndex(keycode)] = 0]
  ELSE keys

keydown(keycode) ==
  /\ pc = "loop"
  /\ frame' = NoFrame
  /\ _keys' = KeysAfterDown(_keys, keycode)
  /\ polygonMode' = IF keycode = "w" THEN TogglePolygonMode(polygonMode)
                    ELSE polygonMode
  /\ UNCHANGED <<winVars, landVars, _cycle, _cam, t0, nticks, eau>>
  /\ IF keycode \in {"SDLK_ESCAPE", "q"}
     THEN exit("exit 0")
     ELSE UNCHANGED <<procVars, resVars>>

keyup(keycode) ==
  /\ pc = "loop"
  /\ frame' = NoFrame
  /\ _keys' = KeysAfterUp(_keys, keycode)
  /\ UNCHANGED <<procVars, winVars, landVars, resVars, _cycle, _cam, t0,
                 nticks, polygonMode, eau>>

\* the mutation of resize used by the terrain's checks: the size is
\* stored in the dimensions of the landscape
resize_SetsLandscape(w, h) ==
  /\ pc = "loop"
  /\ _landscape_w' = w /\ _landscape_h' = h
  /\ frame' = NoFrame
  /\ UNCHANGED <<procVars, winVars, _landscape_scale_xz, _landscape_scale_y,
                 resVars, camVars, polygonMode, eau>>

\* resize(w, h), lines 145-150 (the projection matrix is not modelled)
resize(w, h) ==
  /\ pc = "loop"
  /\ _windowWidth' = w /\ _windowHeight' = h
  /\ frame' = NoFrame
  /\ UNCHANGED <<procVars, landVars, resVars, camVars, polygonMode, eau>>

(***************************************************************************)
(* draw: the calls it makes, in order, run on a small OpenGL machine       *)
(***************************************************************************)
YOne == HOne * QMul

\* the mutation of the view used by the checks of the camera's heading:
\* the target is placed behind the eye, at x + sin(theta), z + cos(theta)
LookAt_Backward(cam, y, ym, winH) ==
  LET k == TrigOne \div PosOne
      ey == (y + 2 * HOne) * QMul
      pitch == ToGLfloat(RoundDiv((ym - winH \div 2) * YOne, winH))
  IN [ex |-> ToGLfloat(cam.x * k), ey |-> ToGLfloat(ey),
      ez |-> ToGLfloat(cam.z * k),
      tx |-> ToGLfloat(cam.x * k + sin(cam.theta)),
      ty |-> ToGLfloat(ey - pitch),
      tz |-> ToGLfloat(cam.z * k + cos(cam.theta))]

\* the arguments of gl4duLookAtf (lines 245-247), each converted to the
\* GLfloat parameter: eye and target, x and z in TrigOne-ths, y in YOne-ths
LookAt(cam, y, ym, winH) ==
  LET k == TrigOne \div PosOne
      ey == (y + 2 * HOne) * QMul
      pitch == ToGLfloat(RoundDiv((ym - winH \div 2) * YOne, winH))
  IN [ex |-> ToGLfloat(cam.x * k), ey |-> ToGLfloat(ey),
      ez |-> ToGLfloat(cam.z * k),
      tx |-> ToGLfloat(cam.x * k - sin(cam.theta)),
      ty |-> ToGLfloat(ey - pitch),
      tz |-> ToGLfloat(cam.z * k - cos(cam.theta))]

Call(op, name, val) == [op |-> op, name |-> name, val |-> val]

\* the mutation of draw used by the renderer's checks: line 256, which
\* sets "eau" to 0, is missing
DrawCalls_NoEauReset(cycle) ==
  << Call("Clear", "", 0), Call("BindMatrix", "modelViewMatrix", 0),
     Call("LoadIdentity", "", 0), Call("LookAt", "", 0),
     Call("UseProgram", "_landscape_pId", 0), Call("Lumpos", "", 0),
     Call("Scale", "", 0), Call("SendMatrices", "", 0),
     Call("Uniform", "lumpos", 0), Call("Uniform", "degrade", 0),
     Call("Uniform", "cycle", cycle),
     Call("BindTexture", "_terrain_tId", 0), Call("UseNoise", "", 1),
     Call("Draw", "_landscape", 0), Call("Rotate", "", -90),
     Call("SendMatrices", "", 0), Call("Uniform", "eau", 1),
     Call("Draw", "_plan", 0), Call("UnuseNoise", "", 1) >>

\* the mutation of draw used by the checks of the noise protocol: line
\* 265, which releases the noise textures, is missing
DrawCalls_NoUnuse(cycle) ==
  << Call("Clear", "", 0), Call("BindMatrix", "modelViewMatrix", 0),
     Call("LoadIdentity", "", 0), Call("LookAt", "", 0),
     Call("UseProgram", "_landscape_pId", 0), Call("Lumpos", "", 0),
     Call("Scale", "", 0), Call("SendMatrices", "", 0),
     Call("Uniform", "lumpos", 0), Call("Uniform", "degrade", 0),
     Call("Uniform", "eau", 0), Call("Uniform", "cycle", cycle),
     Call("BindTexture", "_terrain_tId", 0), Call("UseNoise", "", 1),
     Call("Draw", "_landscape", 0), Call("Rotate", "", -90),
     Call("SendMatrices", "", 0), Call("Uniform", "eau", 1),
     Call("Draw", "_plan", 0) >>

\* lines 242-265, in order
DrawCalls(cycle) ==
  << Call("Clear", "", 0), Call("BindMatrix", "modelViewMatrix", 0),
     Call("LoadIdentity", "", 0), Call("LookAt", "", 0),
     Call("UseProgram", "_landscape_pId", 0), Call("Lumpos", "", 0),
     Call("Scale", "", 0), Call("SendMatrices", "", 0),
     Call("Uniform", "lumpos", 0), Call("Uniform", "degrade", 0),
     Call("Uniform", "eau", 0), Call("Uniform", "cycle", cycle),
     Call("BindTexture", "_terrain_tId", 0), Call("UseNoise", "", 1),
     Call("Draw", "_landscape", 0), Call("Rotate", "", -90),
     Call("SendMatrices", "", 0), Call("Uniform", "eau", 1),
     Call("Draw", "_plan", 0), Call("UnuseNoise", "", 1) >>

\* the machine at the start of a frame: the uniform "eau" and the noise
\* binding are what the previous frame left; nothing else is set yet
GLStart(eau0, bound0) ==
  [view |-> FALSE, scaled |-> FALSE, rotated |-> FALSE,
   sent |-> [view |-> FALSE, scaled |-> FALSE, rotated |-> FALSE],
   program |-> "", lumposReady |-> FALSE, lumpos |-> FALSE,
   cycle |-> -1, eau |-> eau0, eauSet |-> FALSE, tex |-> "",
   bound |-> bound0, subs |-> <<>>]

\* the effect of one call
GLStep(g, c) ==
  CASE c.op = "LoadIdentity" ->
         [g EXCEPT !.view = FALSE, !.scaled = FALSE, !.rotated = FALSE]
    [] c.op = "LookAt" -> [g EXCEPT !.view = TRUE]
    [] c.op = "UseProgram" -> [g EXCEPT !.program = c.name]
    [] c.op = "Lumpos" -> [g EXCEPT !.lumposReady = g.view /\ ~g.scaled]
    [] c.op = "Scale" -> [g EXCEPT !.scaled = TRUE]
    [] c.op = "Rotate" -> [g EXCEPT !.rotated = TRUE]
    [] c.op = "SendMatrices" ->
         [g EXCEPT !.sent = [view |-> g.view, scaled |-> g.scaled,
                             rotated |-> g.rotated]]
    [] c.op = "Uniform" /\ c.name = "lumpos" ->
         [g EXCEPT !.lumpos = g.lumposReady]
    [] c.op = "Uniform" /\ c.name = "eau" ->
         [g EXCEPT !.eau = c.val, !.eauSet = TRUE]
    [] c.op = "Uniform" /\ c.name = "cycle" -> [g EXCEPT !.cycle = c.val]
    [] c.op = "BindTexture" -> [g EXCEPT !.tex = c.name]
    [] c.op = "UseNoise" -> [g EXCEPT !.bound = useNoiseTextures(g).bound]
    [] c.op = "UnuseNoise" -> [g EXCEPT !.bound = unuseNoiseTextures(g).bound]
    [] c.op = "Draw" ->
         [g EXCEPT !.subs = Append(@,
            [mesh |-> c.name, eau |-> g.eau, eauSet |-> g.eauSet,
             sent |-> g.sent, lumpos |-> g.lumpos, cycle |-> g.cycle,
             tex |-> g.tex, bound |-> g.bound, program |-> g.program])]
    [] OTHER -> g

RECURSIVE RunGL(_, _, _)
RunGL(calls, i, g) ==
  IF i > Len(calls) THEN g ELSE RunGL(calls, i + 1, GLStep(g, calls[i]))

\* draw() with the pointer at height ym
draw(ym) ==
  /\ pc = "loop"
  /\ LET alt == heightMapAltitude(_cam.x, _cam.z, Land)
         g == RunGL(DrawCalls(_cycle), 1, GLStart(eau, noise.bound))
     IN /\ frame' = << [alt |-> alt,
                        look |-> LookAt(_cam, alt.y, ym, _windowHeight),
                        subs |-> g.subs] >>
        /\ eau' = g.eau
        /\ noise' = [noise EXCEPT !.bound = g.bound]
  /\ UNCHANGED <<procVars, winVars, landVars, _heightMap, heap, _terrain_tId,
                 released, quitCalls, camVars, polygonMode>>

(***************************************************************************)
(* The program: main, then the callbacks the main loop dispatches, in any  *)
(* order, until the process exits.                                         *)
(***************************************************************************)
Startup ==
  /\ \E windowOk \in BOOLEAN, imgOk \in BOOLEAN, kind \in HeightMapKinds :
       main(windowOk, imgOk, kind)
  /\ UNCHANGED obsVars

Idle ==
  /\ nticks < MaxTicks
  /\ \E dt \in DtSet : idle(dt)
  /\ UNCHANGED obsVars

KeyDown == (\E keycode \in KeyCodes : keydown(keycode)) /\ UNCHANGED obsVars

KeyUp == (\E keycode \in KeyCodes : keyup(keycode)) /\ UNCHANGED obsVars

Resize == (\E s \in WindowSizes : resize(s[1], s[2])) /\ UNCHANGED obsVars

Draw == (\E ym \in MouseYs : draw(ym)) /\ UNCHANGED obsVars

LoopEnds == MainLoopReturns /\ UNCHANGED obsVars

Next == Startup \/ Idle \/ KeyDown \/ KeyUp \/ Resize \/ Draw \/ LoopEnds

Spec == Init /\ [][Next]_vars

(***************************************************************************)
(* The main loop from a state it can be in: the program after a            *)
(* successful start, with the given terrain, camera and key flags.         *)
(***************************************************************************)
Running(land, cam, keys) ==
  /\ pc = "loop" /\ outcome = "running" /\ atexitFns = <<"quit">>
  /\ _windowWidth = 800 /\ _windowHeight = 600
  /\ _landscape_w = land.w /\ _landscape_h = land.h
  /\ _landscape_scale_xz = land.scale_xz /\ _landscape_scale_y = land.scale_y
  /\ _heightMap = 1 /\ heap = [live |-> TRUE, kind |-> land.kind]
  /\ _terrain_tId = 1
  /\ noise = [state |-> "ready", bound |-> FALSE]
  /\ _cycle = 0 /\ _keys = keys /\ _cam = cam /\ t0 = 0
  /\ polygonMode = "GL_FILL" /\ eau = 0
  /\ released = [noise |-> 0, heightMap |-> 0, texture |-> 0, gl4du |-> 0]
  /\ quitCalls = 0 /\ nticks = 0
  /\ last = [op |-> "none", key |-> "", dt |-> 0]
  /\ frame = NoFrame /\ wHist = <<>> /\ trip = NoTrip
  /\ keyEv = [k \in {KLEFT, KRIGHT, KUP, KDOWN} |-> "none"]

\* the terrain of the program, for a generated field of the given kind
ProgramLand(kind) ==
  [w |-> 513, h |-> 513, scale_xz |-> 100, scale_y |-> 10, kind |-> kind]

\* the terrain of the specification's scenario: 5 x 5, horizontal scale
\* 10, vertical scale 2, all samples 0.5 or the centre raised to 1.0
ScenarioLand(kind) ==
  [w |-> 5, h |-> 5, scale_xz |-> 10, scale_y |-> 2, kind |-> kind]

NoKeys == [k \in {KLEFT, KRIGHT, KUP, KDOWN} |-> 0]

(***************************************************************************)
(* The altitude lookup alone: draw, from camera positions across and       *)
(* beyond the terrain (in tenths of the horizontal scale).                 *)
(***************************************************************************)
AltTenths == {-12, -10, -9, -5, 0, 3, 9, 10, 12}

AltLands == {ProgramLand("flat"), ProgramLand("ramp"),
             ScenarioLand("flat"), ScenarioLand("centre")}

AltInit ==
  \E land \in AltLands, fx \in AltTenths, fz \in AltTenths :
    Running(land,
            [x |-> ToGLfloat((fx * land.scale_xz * PosOne) \div 10),
             z |-> ToGLfloat((fz * land.scale_xz * PosOne) \div 10),
             theta |-> 0],
            NoKeys)

SpecAlt == AltInit /\ [][Draw]_vars

(***************************************************************************)
(* Altitude lookup (C1, C2)                                                *)
(***************************************************************************)
\* the grid coordinates of the camera, and the cell they truncate to
CamGridX == GridCoord(_cam.x, _landscape_w, _landscape_scale_xz, 1)

CamGridZ == GridCoord(_cam.z, _landscape_h, _landscape_scale_xz, -1)

CamCellX == TruncToInt(CamGridX, GridOne)

CamCellZ == TruncToInt(CamGridZ, GridOne)

\* (2 * sample(i, j) - 1) * vertScale, as the GLfloat returned
RemapOfSample(i, j) ==
  ToGLfloat((2 * HeightSample(heap.kind, _landscape_w, _landscape_h,
                              i + j * _landscape_w) - HOne)
            * _landscape_scale_y)

C2_OutOfRangeIsZero ==
  (frame # NoFrame
   /\ ~(CamGridX >= 0 /\ CamGridX < _landscape_w * GridOne
        /\ CamGridZ >= 0 /\ CamGridZ < _landscape_h * GridOne))
    => /\ frame[1].alt.y = 0
       /\ frame[1].alt.read = -1
       /\ pc = "loop" /\ outcome = "running"

(***************************************************************************)
(* The camera alone: the main loop over the program's terrain, from a few  *)
(* poses and with the rotation keys as they may be held, dispatching       *)
(* idle, draw and the events of the two translation keys.  last is the     *)
(* latest idle(), for as long as the keys it saw are the keys held; trip   *)
(* follows a run of forward ticks and the backward ticks after it.         *)
(***************************************************************************)
DtCam == {500, 1000, 15000}

CamStarts ==
  { [x |-> 0, z |-> 0, theta |-> 0],
    [x |-> 3 * PosOne, z |-> -7 * PosOne, theta |-> M_PI \div 4] }

CamInit ==
  \E cam \in CamStarts, l \in {0, 1}, r \in {0, 1} :
    Running(ProgramLand("ramp"), cam,
            [NoKeys EXCEPT ![KLEFT] = l, ![KRIGHT] = r])

CamIdle ==
  /\ nticks < CamTicks
  /\ \E dt \in DtCam :
       /\ idle(dt)
       /\ last' = [op |-> "idle", key |-> "", dt |-> dt]
       /\ trip' = TripAfter(trip, _cam, _keys, dt)
  /\ UNCHANGED <<wHist, keyEv>>

CamKeyDown ==
  /\ \E keycode \in {"SDLK_UP", "SDLK_DOWN"} : keydown(keycode)
  /\ last' = [op |-> "none", key |-> "", dt |-> 0]
  /\ UNCHANGED <<wHist, keyEv, trip>>

CamKeyUp ==
  /\ \E keycode \in {"SDLK_UP", "SDLK_DOWN"} : keyup(keycode)
  /\ last' = [op |-> "none", key |-> "", dt |-> 0]
  /\ UNCHANGED <<wHist, keyEv, trip>>

\* draw with the pointer at the top of the window
CamDraw == draw(0) /\ UNCHANGED obsVars

CamNext == CamIdle \/ CamKeyDown \/ CamKeyUp \/ CamDraw

SpecCam == CamInit /\ [][CamNext]_vars

\* a frame drawn after the camera walked backwards off the terrain: the
\* grid row is negative, the altitude is the default and nothing was read
C2_Witness ==
  /\ frame # NoFrame /\ nticks > 0
  /\ CamGridZ < 0
  /\ frame[1].alt.y = 0 /\ frame[1].alt.read = -1

(***************************************************************************)
(* Camera motion (C4, C5, C6)                                              *)
(***************************************************************************)
\* a step of idle(), and the elapsed time get_dt gave it
TickStep == nticks' = nticks + 1

TickDt == t0' - t0

\* C4, as stated: in a tick, with rotate-left held and not rotate-right
\* theta becomes theta + dt*pi, with rotate-right held and not rotate-left
\* theta - dt*pi, and with both held theta is what it was.
C4_BothHeldExact ==
  [][TickStep =>
       /\ (_keys[KLEFT] # 0 /\ _keys[KRIGHT] = 0)
            => _cam'.theta = ToGLfloat(_cam.theta + Turn(TickDt))
       /\ (_keys[KLEFT] = 0 /\ _keys[KRIGHT] # 0)
            => _cam'.theta = ToGLfloat(_cam.theta - Turn(TickDt))
       /\ (_keys[KLEFT] # 0 /\ _keys[KRIGHT] # 0)
            => _cam'.theta = _cam.theta]_vars

\* C4, amended: in a tick, with rotate-left held and not rotate-right
\* theta becomes the GLfloat nearest theta + dt*pi, with rotate-right
\* held and not rotate-left the GLfloat nearest theta - dt*pi, whatever
\* the position and the translation keys; with both held theta is
\* rounded twice and ends within one unit in the last place (at the
\* magnitude |theta| + dt*pi) of what it was, not always equal to it; with
\* neither held it is what it was.
C4_BothHeldWithinUlp ==
  [][TickStep =>
       /\ (_keys[KLEFT] # 0 /\ _keys[KRIGHT] = 0)
            => _cam'.theta = ToGLfloat(_cam.theta + Turn(TickDt))
       /\ (_keys[KLEFT] = 0 /\ _keys[KRIGHT] # 0)
            => _cam'.theta = ToGLfloat(_cam.theta - Turn(TickDt))
       /\ (_keys[KLEFT] # 0 /\ _keys[KRIGHT] # 0)
            => Abs(_cam'.theta - _cam.theta)
                 <= UlpOf(Abs(_cam.theta) + Turn(TickDt))
       /\ (_keys[KLEFT] = 0 /\ _keys[KRIGHT] = 0)
            => _cam'.theta = _cam.theta]_vars

\* two ticks with both rotation keys held, after which theta is not the
\* theta the camera started with
C4_Witness ==
  /\ last.op = "idle" /\ nticks = 2
  /\ _keys[KLEFT] # 0 /\ _keys[KRIGHT] # 0
  /\ _cam.theta \notin {c.theta : c \in CamStarts}

\* C5, as stated: a tick with both forward and backward held leaves
\* (x, z) what it was, whatever the rotation keys; and after ticks with
\* only forward held followed by ticks with only backward held for the
\* same total time, (x, z) is what it was at the start.
C5_ReturnsExactly ==
  /\ [][(TickStep /\ _keys[KUP] # 0 /\ _keys[KDOWN] # 0)
          => (_cam'.x = _cam.x /\ _cam'.z = _cam.z)]_vars
  /\ []((trip.phase = "bwd" /\ trip.fwd = trip.bwd)
          => (_cam.x = trip.x0 /\ _cam.z = trip.z0))

\* the farthest a coordinate that was at v can be after walking for dt
Reach(v, dt) == Abs(v) + Step(dt, TrigOne)

\* C5, amended: a tick with both forward and backward held leaves x and
\* z within one unit in the last place (at the magnitude the coordinate
\* reaches in between) of what they were, whatever the rotation keys; and
\* after ticks with only forward held followed by ticks with only backward
\* held for the same total time, x and z are within one such unit per
\* tick of what they were at the start, not always equal to them.
C5_ReturnsWithinUlps ==
  /\ [][(TickStep /\ _keys[KUP] # 0 /\ _keys[KDOWN] # 0)
          => /\ Abs(_cam'.x - _cam.x) <= UlpOf(Reach(_cam.x, TickDt))
             /\ Abs(_cam'.z - _cam.z) <= UlpOf(Reach(_cam.z, TickDt))]_vars
  /\ []((trip.phase = "bwd" /\ trip.fwd = trip.bwd)
          => /\ Abs(_cam.x - trip.x0)
                  <= trip.n * UlpOf(Reach(trip.x0, trip.fwd))
             /\ Abs(_cam.z - trip.z0)
                  <= trip.n * UlpOf(Reach(trip.z0, trip.fwd)))

\* a walk forward then backward for the same time, at an oblique heading,
\* that has not brought the camera back exactly
C5_Witness ==
  /\ trip.phase = "bwd" /\ trip.fwd = trip.bwd
  /\ last.op = "idle" /\ OnlyKey(_keys, KDOWN)
  /\ _cam.theta = M_PI \div 4
  /\ (_cam.x # trip.x0 \/ _cam.z # trip.z0)

\* C6: a tick with only the forward key held takes the pose to
\* x - dt*5*sin(theta), z - dt*5*cos(theta) (as stored in the GLfloat
\* fields) and leaves theta what it was; with only the backward key held,
\* to x + dt*5*sin(theta), z + dt*5*cos(theta); and from the pose
\* (0, 0, 0) a forward tick of dt = 1.0 ends at exactly (0, -5).
C6_ForwardStep ==
  [][TickStep =>
       /\ OnlyKey(_keys, KUP) =>
            _cam' = [x |-> ToGLfloat(_cam.x - Step(TickDt, sin(_cam.theta))),
                     z |-> ToGLfloat(_cam.z - Step(TickDt, cos(_cam.theta))),
                     theta |-> _cam.theta]
       /\ OnlyKey(_keys, KDOWN) =>
            _cam' = [x |-> ToGLfloat(_cam.x + Step(TickDt, sin(_cam.theta))),
                     z |-> ToGLfloat(_cam.z + Step(TickDt, cos(_cam.theta))),
                     theta |-> _cam.theta]
       /\ (OnlyKey(_keys, KUP) /\ TickDt = MsPerSec
           /\ _cam = [x |-> 0, z |-> 0, theta |-> 0])
            => _cam' = [x |-> 0, z |-> -5 * PosOne, theta |-> 0]]_vars

\* the camera one forward tick of one second from the origin
C6_Witness ==
  /\ last = [op |-> "idle", key |-> "", dt |-> MsPerSec]
  /\ nticks = 1 /\ OnlyKey(_keys, KUP)
  /\ _cam = [x |-> 0, z |-> -5 * PosOne, theta |-> 0]

(***************************************************************************)
(* The keyboard alone: key-down and key-up events of every key code, in    *)
(* any order, on the running program.  last is the latest event, keyEv     *)
(* the latest event of each arrow key, wHist the polygon modes found by    *)
(* the 'w' key-downs that came one after the other, the last two at most.  *)
(***************************************************************************)
KeysInit ==
  \E cam \in CamStarts : Running(ProgramLand("flat"), cam, NoKeys)

KeyEvAfter(ev, keycode, what) ==
  IF keycode \in Arrows THEN [ev EXCEPT ![ArrowIndex(keycode)] = what] ELSE ev

KeysDown ==
  \E keycode \in KeyCodes :
    /\ keydown(keycode)
    /\ last' = [op |-> "keydown", key |-> keycode, dt |-> 0]
    /\ keyEv' = KeyEvAfter(keyEv, keycode, "down")
    /\ wHist' = IF keycode # "w" THEN <<>>
                ELSE IF Len(wHist) = 2 THEN <<wHist[2], polygonMode>>
                ELSE Append(wHist, polygonMode)
    /\ UNCHANGED trip

KeysUp ==
  \E keycode \in KeyCodes :
    /\ keyup(keycode)
    /\ last' = [op |-> "keyup", key |-> keycode, dt |-> 0]
    /\ keyEv' = KeyEvAfter(keyEv, keycode, "up")
    /\ wHist' = <<>>
    /\ UNCHANGED trip

KeysNext == KeysDown \/ KeysUp

SpecKeys == KeysInit /\ [][KeysNext]_vars

(***************************************************************************)
(* The shutdown alone: the program without its ticks, and quit() called    *)
(* again, any number of times, once the process has ended.                 *)
(***************************************************************************)
QuitAgain ==
  /\ pc = "exited"
  /\ quitCalls < MaxQuits
  /\ quit
  /\ UNCHANGED <<procVars, winVars, landVars, camVars, polygonMode, eau,
                 frame, obsVars>>

QuitNext == Startup \/ KeyDown \/ KeyUp \/ Draw \/ LoopEnds \/ QuitAgain

SpecQuit == Init /\ [][QuitNext]_vars

(***************************************************************************)
(* Rendering (C3)                                                          *)
(***************************************************************************)
\* C3: every frame draw produced holds exactly two submissions, the
\* terrain mesh then the water plane; "eau" is 0 at the first and 1 at
\* the second; the matrices sent for the first do not hold the rotation
\* and those sent for the second do; and the view transform and the
\* uniforms lumpos, cycle and eau are all set before the first.
C3_TwoPassesInOrder ==
  frame # NoFrame =>
    LET subs == frame[1].subs
    IN /\ Len(subs) = 2
       /\ subs[1].mesh = "_landscape" /\ subs[2].mesh = "_plan"
       /\ subs[1].eau = 0 /\ subs[2].eau = 1
       /\ ~subs[1].sent.rotated /\ subs[2].sent.rotated
       /\ subs[1].sent.view
       /\ subs[1].lumpos /\ subs[1].eauSet /\ subs[1].cycle = _cycle

\* a frame drawn after a tick, over what the frame before it left in
\* "eau"
C3_Witness ==
  /\ frame # NoFrame /\ nticks = 1 /\ eau = 1
  /\ frame[1].subs[1].cycle = ToGLfloat(MsPerSec)
  /\ frame[1].subs[1].eau = 0 /\ frame[1].subs[2].eau = 1

(***************************************************************************)
(* Shutdown (C7, C8)                                                       *)
(***************************************************************************)
\* C7, as stated: whenever the process has ended, by whatever path,
\* quit has run exactly once.
C7_QuitOnEveryExit == pc = "exited" => quitCalls = 1

\* C7, amended: quit never runs twice; when the process has ended by a
\* quit key ('q' or Escape) or by the return of the main loop, quit has
\* run exactly once; when it has ended because the window could not be
\* created (main returns 1 before atexit(quit)) or because the assertion
\* of init failed (abort), quit has not run at all.
C7_QuitOnceAfterInit ==
  /\ quitCalls <= 1
  /\ pc = "exited" =>
       quitCalls = (IF outcome \in {"exit 0", "return 0"} THEN 1 ELSE 0)
  /\ pc # "exited" => quitCalls = 0

\* the process ended by a quit key, and quit released everything once
C7_Witness ==
  /\ pc = "exited" /\ outcome = "exit 0" /\ quitCalls = 1
  /\ released = [noise |-> 1, heightMap |-> 1, texture |-> 1, gl4du |-> 1]

\* C8: however many times quit is called, the noise textures, the
\* height-field buffer and the colour-ramp texture are each released at
\* most once, and a call that follows another releases none of them.
C8_QuitIdempotent ==
  /\ [](released.noise <= 1 /\ released.heightMap <= 1
        /\ released.texture <= 1)
  /\ [][(quitCalls >= 1 /\ quitCalls' = quitCalls + 1)
          => /\ released'.noise = released.noise
             /\ released'.heightMap = released.heightMap
             /\ released'.texture = released.texture
             /\ _heightMap' = NULL /\ _terrain_tId' = 0]_vars

\* quit was called twice after a start that allocated everything
C8_Witness ==
  /\ quitCalls = 2
  /\ released.noise = 1 /\ released.heightMap = 1 /\ released.texture = 1

(***************************************************************************)
(* Keyboard (C9, C10)                                                      *)
(***************************************************************************)
\* C9: each of the four flags is set iff the most recent event of its
\* own arrow key was a key-down (so that an event of one arrow key
\* leaves the other three flags as they were); and an event of a key
\* that is neither an arrow, 'w', 'q' nor Escape changes no flag, no
\* camera pose, no polygon mode, and does not end the process.
C9_FlagsFollowEvents ==
  /\ [](\A k \in {KLEFT, KRIGHT, KUP, KDOWN} :
          (_keys[k] # 0) <=> (keyEv[k] = "down"))
  /\ [][(last'.op \in {"keydown", "keyup"}
         /\ last'.key \notin (Arrows \cup {"w", "q", "SDLK_ESCAPE"}))
          => UNCHANGED <<_keys, _cam, polygonMode, pc, outcome>>]_vars

\* forward is held, backward was released after being pressed, and the
\* latest event was a key the program does not know
C9_Witness ==
  /\ last = [op |-> "keydown", key |-> "a", dt |-> 0]
  /\ keyEv[KUP] = "down" /\ keyEv[KDOWN] = "up" /\ keyEv[KLEFT] = "none"
  /\ _keys[KUP] = 1 /\ _keys[KDOWN] = 0 /\ pc = "loop"

\* C10: after two 'w' key-downs one after the other the polygon mode
\* is the one the first of them found; and a 'w' key-down sets the mode
\* from the mode it reads back alone (GL_LINE over GL_FILL, GL_FILL
\* otherwise), leaving the key flags and the camera pose as they were.
C10_ToggleInvolutive ==
  /\ [](Len(wHist) = 2 => polygonMode = wHist[1])
  /\ [][(last'.op = "keydown" /\ last'.key = "w" /\ pc = "loop")
          => /\ polygonMode' = (IF polygonMode = "GL_FILL" THEN "GL_LINE"
                                ELSE "GL_FILL")
             /\ UNCHANGED <<_keys, _cam>>]_vars

\* two toggles in a row that began in wireframe, with a key held
C10_Witness ==
  /\ wHist = <<"GL_LINE", "GL_FILL">> /\ polygonMode = "GL_LINE"
  /\ _keys[KUP] = 1

(***************************************************************************)
(* Startup (C11): the whole program, with last recording how main went.    *)
(***************************************************************************)
StartupSeen ==
  \E windowOk \in BOOLEAN, imgOk \in BOOLEAN, kind \in HeightMapKinds :
    /\ main(windowOk, imgOk, kind)
    /\ last' = [op |-> "main",
                key |-> IF ~windowOk THEN "no window"
                        ELSE IF ~imgOk THEN "no image" ELSE "ok",
                dt |-> 0]
    /\ UNCHANGED <<wHist, keyEv, trip>>

StartNext ==
  StartupSeen \/ Idle \/ KeyDown \/ KeyUp \/ Resize \/ Draw \/ LoopEnds

SpecStart == Init /\ [][StartNext]_vars

\* C11: when the window cannot be created or the colour-ramp image cannot
\* be loaded, the process has ended, with main returning 1 or with
\* abort(); the main loop was not entered (quit is not registered, the
\* noise textures are not initialised), no tick has run and no frame has
\* been drawn; and nothing runs once the process has ended.
C11_StartupFailureIsFatal ==
  /\ [](last.key \in {"no window", "no image"} =>
          /\ pc = "exited"
          /\ outcome = (IF last.key = "no window" THEN "return 1" ELSE "abort")
          /\ atexitFns = <<>> /\ noise.state = "none"
          /\ nticks = 0 /\ _cycle = 0
          /\ frame = NoFrame /\ eau = 0)
  /\ [][pc = "exited" => UNCHANGED <<camVars, frame, eau>>]_vars

\* the image could not be loaded: the process has aborted, with the
\* buffer and the texture allocated and nothing else done
C11_Witness ==
  /\ last.key = "no image" /\ pc = "exited" /\ outcome = "abort"
  /\ _heightMap # NULL /\ _terrain_tId # 0
  /\ nticks = 0 /\ frame = NoFrame

(***************************************************************************)
(* The render cycle (C12): ticks of half a second and of thirty seconds    *)
(* among the events that might disturb _cycle: key events (of a            *)
(* translation key, of 'w', of a key the program does not know), resize    *)
(* and draw.                                                               *)
(***************************************************************************)
DtCycle == {500, 30000}

CycleKeys == {"SDLK_UP", "w", "a"}

CycleInit ==
  \E cam \in CamStarts : Running(ProgramLand("ramp"), cam, NoKeys)

CycleIdle ==
  /\ nticks < CamTicks
  /\ \E dt \in DtCycle : idle(dt)
  /\ UNCHANGED obsVars

CycleKeyDown == (\E keycode \in CycleKeys : keydown(keycode)) /\ UNCHANGED obsVars

CycleKeyUp == (\E keycode \in CycleKeys : keyup(keycode)) /\ UNCHANGED obsVars

CycleNext == CycleIdle \/ CycleKeyDown \/ CycleKeyUp \/ Resize \/ Draw

SpecCycle == CycleInit /\ [][CycleNext]_vars

\* C12, as stated: _cycle is the sum of the elapsed times of all ticks so
\* far (which get_dt's t0 holds, in milliseconds).
C12_CycleIsExactSum == _cycle = t0

\* C12, amended: a tick takes _cycle to the GLfloat nearest _cycle + dt,
\* never to less than it was, so that _cycle is the sum of all dt so far
\* only up to one rounding per tick (within one unit in the last place of
\* the sum per tick); no other event changes _cycle; and the pose a tick
\* leaves and the altitude a frame uses are functions of the pose, the key
\* flags, dt and the terrain alone, whatever _cycle is.
C12_CycleAccumulatesRounded ==
  /\ [](Abs(_cycle - t0) <= nticks * UlpOf(t0))
  /\ [][/\ TickStep => /\ _cycle' = ToGLfloat(_cycle + TickDt)
                       /\ _cycle' >= _cycle
                       /\ _cam' = IdleCam(_cam, _keys, TickDt)
        /\ ~TickStep => _cycle' = _cycle
        /\ frame' # NoFrame =>
             frame'[1].alt = heightMapAltitude(_cam'.x, _cam'.z, Land)]_vars

\* thirty seconds and a half have passed in two ticks, and _cycle is not
\* that sum; the polygon mode was toggled and the window resized meanwhile
C12_Witness ==
  /\ nticks = 2 /\ t0 = 30500 /\ _cycle # t0 /\ _cycle > 30000
  /\ polygonMode = "GL_LINE" /\ _windowWidth = 400 /\ frame # NoFrame

(***************************************************************************)
(* The terrain's life (C13)                                                *)
(***************************************************************************)
\* C13: main, and init with it, runs once; only it allocates the
\* height-field buffer and the colour-ramp texture, once each, and both
\* are there for as long as the main loop runs; and no step of the main
\* loop (idle, keydown, keyup, resize, draw with its altitude lookup)
\* changes a height sample, the dimensions of the grid or the two scales.
C13_TerrainMadeOnceReadOnly ==
  /\ [](pc = "loop" => /\ _heightMap # NULL /\ heap.live /\ _terrain_tId # 0
                       /\ released.heightMap = 0 /\ released.texture = 0)
  /\ [][/\ pc # "main" =>
             /\ pc' # "main"
             /\ heap'.kind = heap.kind
             /\ _heightMap' \in {_heightMap, NULL}
             /\ _terrain_tId' \in {_terrain_tId, 0}
        /\ (pc = "loop" /\ pc' = "loop") =>
             UNCHANGED <<heap, _heightMap, _terrain_tId>>
        /\ UNCHANGED landVars]_vars

\* the main loop, after a tick, a toggle, a resize and a frame that read
\* the buffer
C13_Witness ==
  /\ pc = "loop" /\ nticks = 1 /\ polygonMode = "GL_LINE"
  /\ _windowWidth = 400
  /\ frame # NoFrame /\ frame[1].alt.read >= 0
  /\ heap = [live |-> TRUE, kind |-> "ramp"]

(***************************************************************************)
(* The extent of the terrain (C14)                                         *)
(***************************************************************************)
\* the camera is within the square the mesh covers once draw has scaled
\* it (line 252): -scale <= x <= scale and -scale <= z <= scale
CamOnTerrain ==
  /\ Abs(_cam.x) <= _landscape_scale_xz * PosOne
  /\ Abs(_cam.z) <= _landscape_scale_xz * PosOne

\* C14: for every camera position within the extent of the terrain the
\* altitude a frame uses comes from the in-range branch: a sample of the
\* buffer was read and its remap returned.
C14_DefaultOnlyOutsideExtent ==
  (frame # NoFrame /\ CamOnTerrain)
    => /\ frame[1].alt.read \in 0 .. (_landscape_w * _landscape_h - 1)
       /\ frame[1].alt.y = RemapOfSample(CamCellX, CamCellZ)

(***************************************************************************)
(* The noise-texture protocol (C15)                                        *)
(***************************************************************************)
\* the positions in draw's calls of the calls of the given operation
CallsAt(op) ==
  {i \in 1 .. Len(DrawCalls(_cycle)) : DrawCalls(_cycle)[i].op = op}

\* C15: the noise textures are initialised before the main loop runs and
\* stay so while it runs; draw calls use (offset 1) once, before both
\* submissions, and unuse (offset 1) once, after both, and nothing else
\* of the module; the binding is held at both submissions of a frame and
\* is not held between callbacks; the textures are freed only by quit,
\* when the process ends, and nothing is drawn after that.
C15_NoiseProtocol ==
  /\ [](/\ pc = "loop" => noise.state = "ready"
        /\ pc = "main" => noise.state = "none"
        /\ noise.state = "freed" => (pc = "exited" /\ quitCalls >= 1)
        /\ ~noise.bound
        /\ Cardinality(CallsAt("UseNoise")) = 1
        /\ Cardinality(CallsAt("UnuseNoise")) = 1
        /\ \A u \in CallsAt("UseNoise"), d \in CallsAt("Draw"),
              n \in CallsAt("UnuseNoise") :
             /\ u < d /\ d < n
             /\ DrawCalls(_cycle)[u].val = 1 /\ DrawCalls(_cycle)[n].val = 1
        /\ frame # NoFrame =>
             /\ noise.state = "ready"
             /\ frame[1].subs[1].bound /\ frame[1].subs[2].bound)
  /\ [][/\ noise'.state = "ready" /\ noise.state # "ready" => pc = "main"
        /\ noise.state = "freed" => (noise' = noise /\ frame' = NoFrame)]_vars

\* a frame in wireframe, drawn with the binding held, that has released it
C15_Witness ==
  /\ frame # NoFrame /\ polygonMode = "GL_LINE" /\ eau = 1
  /\ frame[1].subs[1].bound /\ frame[1].subs[2].bound
  /\ noise = [state |-> "ready", bound |-> FALSE]

(***************************************************************************)
(* Linearity in dt (C16)                                                   *)
(***************************************************************************)
\* the pose one forward-only tick of the whole time of the trip would
\* have left, from where the trip began
OneTickOfTrip ==
  IdleCam([x |-> trip.x0, z |-> trip.z0, theta |-> _cam.theta],
          [NoKeys EXCEPT ![KUP] = 1], trip.fwd)

\* C16, as stated: after consecutive ticks with only forward held the
\* position is the one a single tick of the summed elapsed time gives.
C16_TicksAddExactly ==
  trip.phase = "fwd" =>
    (_cam.x = OneTickOfTrip.x /\ _cam.z = OneTickOfTrip.z)

\* C16, amended: after consecutive ticks with only forward held, x and z
\* are within one unit in the last place per tick of what a single tick
\* of the summed elapsed time gives, not always equal to it; likewise
\* theta, from the theta the camera started with, while rotate-left alone
\* of the two rotation keys is held; no part of any dt, however large, is
\* capped or dropped.
C16_TicksAddWithinUlps ==
  /\ trip.phase = "fwd" =>
       /\ Abs(_cam.x - OneTickOfTrip.x)
            <= trip.n * UlpOf(Reach(trip.x0, trip.fwd))
       /\ Abs(_cam.z - OneTickOfTrip.z)
            <= trip.n * UlpOf(Reach(trip.z0, trip.fwd))
  /\ (_keys[KLEFT] # 0 /\ _keys[KRIGHT] = 0) =>
       \E c \in CamStarts :
         Abs(_cam.theta - ToGLfloat(c.theta + Turn(t0)))
           <= nticks * UlpOf(Abs(c.theta) + Turn(t0))

\* two forward ticks, of fifteen seconds and of half a second, at an
\* oblique heading, that did not end where one tick of 15.5 s would have
C16_Witness ==
  /\ trip.phase = "fwd" /\ trip.n = 2 /\ trip.fwd = 15500
  /\ _cam.theta = M_PI \div 4
  /\ (_cam.x # OneTickOfTrip.x \/ _cam.z # OneTickOfTrip.z)

(***************************************************************************)
(* No hidden state (C17)                                                   *)
(***************************************************************************)
\* C17: a tick with the four key flags clear leaves x, z and theta as
\* they were, whatever dt and whatever was held before; and no step other
\* than a tick (key-down, key-up, resize, draw) changes them.
C17_NoVelocity ==
  [][/\ (TickStep /\ _keys = NoKeys) => _cam' = _cam
     /\ ~TickStep => _cam' = _cam]_vars

\* half a second forward from the origin and half a second with no key
\* held: the camera is where the forward tick alone took it
C17_Witness ==
  /\ nticks = 2 /\ t0 = 1000 /\ _keys = NoKeys
  /\ _cam = [x |-> 0, z |-> -(5 * PosOne) \div 2, theta |-> 0]

(***************************************************************************)
(* Rotation before translation (C18)                                       *)
(***************************************************************************)
\* C18: in a tick with a translation key held, the forward step and the
\* backward step are both taken along the theta the tick leaves, that
\* is, the theta the rotation keys have already updated in that tick.
C18_RotationFirst ==
  [][(TickStep /\ (_keys[KUP] # 0 \/ _keys[KDOWN] # 0)) =>
       LET sx == Step(TickDt, sin(_cam'.theta))
           sz == Step(TickDt, cos(_cam'.theta))
           fx == IF _keys[KUP] # 0 THEN ToGLfloat(_cam.x - sx) ELSE _cam.x
           fz == IF _keys[KUP] # 0 THEN ToGLfloat(_cam.z - sz) ELSE _cam.z
       IN /\ _cam'.x = IF _keys[KDOWN] # 0 THEN ToGLfloat(fx + sx) ELSE fx
          /\ _cam'.z = IF _keys[KDOWN] # 0 THEN ToGLfloat(fz + sz) ELSE fz]_vars

\* one second with rotate-left and forward held, from the origin facing
\* -z: the camera has turned by pi and stepped towards +z, where the
\* heading it had before the tick would have taken it to z = -5
C18_Witness ==
  /\ last = [op |-> "idle", key |-> "", dt |-> MsPerSec] /\ nticks = 1
  /\ _keys = [NoKeys EXCEPT ![KLEFT] = 1, ![KUP] = 1]
  /\ _cam.theta = ToGLfloat(M_PI)
  /\ _cam.z = ToGLfloat(-Step(MsPerSec, cos(ToGLfloat(M_PI))))
  /\ _cam.z > 4 * PosOne

(***************************************************************************)
(* Memory safety of the lookup (C19).  The lookup on every GLfloat: the    *)
(* finite ones as above, and +Inf, -Inf and NaN, which the lattice has     *)
(* not, encoded by integers beyond every finite value of the model.        *)
(***************************************************************************)
FloatInf == 2^30

FloatNaN == FloatInf + 1

\* lines 296-297 on any GLfloat: NaN stays NaN, an infinity stays one,
\* with the sign the expression gives it
GridCoordOf(v, n, scale, sgn) ==
  IF v = FloatNaN THEN FloatNaN
  ELSE IF Abs(v) = FloatInf THEN sgn * v
  ELSE GridCoord(v, n, scale, sgn)

\* the mutation of the range test used by the checks of memory safety:
\* written as the negation of "out of range", it lets NaN through
InGridOf_NaNPasses(g, n) == g = FloatNaN \/ InGrid(g, n)

\* line 298, one axis, on any GLfloat: every comparison with NaN is false
InGridOf(g, n) == g # FloatNaN /\ InGrid(g, n)

\* heightMapAltitude(x, z) on any GLfloat x, z
LookupAt(x, z, land) ==
  LET gx == GridCoordOf(x, land.w, land.scale_xz, 1)
      gz == GridCoordOf(z, land.h, land.scale_xz, -1)
      idx == BufferIndex(gx, gz, land.w)
  IN IF InGridOf(gx, land.w) /\ InGridOf(gz, land.h)
     THEN [y |-> ToGLfloat((2 * HeightSample(land.kind, land.w, land.h, idx)
                            - HOne) * land.scale_y),
           read |-> idx, gx |-> gx, gz |-> gz]
     ELSE [y |-> 0, read |-> -1, gx |-> gx, gz |-> gz]

\* the arguments tried: across the terrain, beyond it, far beyond it (in
\* tenths of the horizontal scale), and the three that are not finite
LookupTenths == {-60, -12, -10, -9, 0, 9, 10, 12, 60}

LookupInputs(scale) ==
  {ToGLfloat((f * scale * PosOne) \div 10) : f \in LookupTenths}
    \cup {FloatInf, -FloatInf, FloatNaN}

LookupInit ==
  \E land \in AltLands :
    \E x \in LookupInputs(land.scale_xz), z \in LookupInputs(land.scale_xz) :
      Running(land, [x |-> x, z |-> z, theta |-> 0], NoKeys)

\* the call of line 240 alone
Lookup ==
  /\ pc = "loop"
  /\ frame' = << [alt |-> LookupAt(_cam.x, _cam.z, Land)] >>
  /\ UNCHANGED <<procVars, winVars, landVars, resVars, camVars, polygonMode,
                 eau, obsVars>>

SpecLookup == LookupInit /\ [][Lookup]_vars

\* C19: whenever the lookup reads the buffer, the column trunc(gridX) is
\* within 0 .. W-1, the row trunc(gridZ) within 0 .. H-1 and the index
\* read, column + row * W, within 0 .. W*H-1; and for an argument that is
\* not finite it reads nothing and returns 0.
C19_ReadsWithinBuffer ==
  frame # NoFrame =>
    LET a == frame[1].alt
        col == TruncToInt(a.gx, GridOne)
        row == TruncToInt(a.gz, GridOne)
    IN /\ a.read # -1 =>
            /\ col \in 0 .. (_landscape_w - 1)
            /\ row \in 0 .. (_landscape_h - 1)
            /\ a.read = col + row * _landscape_w
            /\ a.read \in 0 .. (_landscape_w * _landscape_h - 1)
       /\ (Abs(_cam.x) >= FloatInf \/ Abs(_cam.z) >= FloatInf) =>
            (a.read = -1 /\ a.y = 0)

\* the last sample of the buffer is read, from the corner of the terrain
C19_Witness ==
  /\ frame # NoFrame /\ Land = ProgramLand("ramp")
  /\ _cam.x = 100 * PosOne /\ _cam.z = -100 * PosOne
  /\ frame[1].alt.read = 513 * 513 - 1

(***************************************************************************)
(* The buffer's life (C20)                                                 *)
(***************************************************************************)
\* C20: a frame is drawn only in the main loop, with the height-field
\* buffer allocated and not freed, before and after the frame; and once
\* the process has ended (by a quit key or otherwise) nothing runs any
\* more: no tick, no frame, no key event.
C20_ReadOnlyWhileAllocated ==
  /\ [](frame # NoFrame =>
          /\ pc = "loop" /\ _heightMap # NULL /\ heap.live
          /\ released.heightMap = 0 /\ quitCalls = 0)
  /\ [][/\ frame' # NoFrame =>
             /\ pc = "loop" /\ _heightMap # NULL /\ heap.live
             /\ quitCalls = 0
        /\ pc # "exited"]_vars

\* the process has ended by a quit key, after a tick and a frame; quit
\* has freed the buffer
C20_Witness ==
  /\ pc = "exited" /\ outcome = "exit 0" /\ quitCalls = 1
  /\ nticks = 1 /\ eau = 1 /\ frame = NoFrame
  /\ _heightMap = NULL /\ ~heap.live /\ released.heightMap = 1

(***************************************************************************)
(* Heading of the motion and of the view (C21)                             *)
(***************************************************************************)
\* the horizontal offset from the eye to the target of a look-at, in
\* TrigOne-ths
ViewOffset(look) == [x |-> look.tx - look.ex, z |-> look.tz - look.ez]

\* the look-at draw() computes for the pose cam on the terrain the statics
\* describe (lines 240, 245-247), the pointer at the top of the window
ViewOf(cam) ==
  LookAt(cam, heightMapAltitude(cam.x, cam.z, Land).y, 0, _windowHeight)

\* C21, as stated: in every frame the offset from eye to target is exactly
\* (-sin(theta), -cos(theta)), the vector along which a forward-only tick
\* displaces the camera, and the eye is (cam.x, altitude + 2.0, cam.z) for
\* the altitude of the pose at the time of the draw, 2.0 off the terrain.
C21_ViewOffsetIsExact ==
  /\ [](frame # NoFrame =>
          LET f == frame[1]
              k == TrigOne \div PosOne
          IN /\ ViewOffset(f.look) = [x |-> -sin(_cam.theta),
                                      z |-> -cos(_cam.theta)]
             /\ f.alt = heightMapAltitude(_cam.x, _cam.z, Land)
             /\ f.look.ex = _cam.x * k /\ f.look.ez = _cam.z * k
             /\ f.look.ey = (f.alt.y + 2 * HOne) * QMul
             /\ f.alt.read = -1 => f.look.ey = 2 * YOne)
  /\ [][(TickStep /\ OnlyKey(_keys, KUP)) =>
          _cam' = [x |-> ToGLfloat(_cam.x - Step(TickDt, sin(_cam.theta))),
                   z |-> ToGLfloat(_cam.z - Step(TickDt, cos(_cam.theta))),
                   theta |-> _cam.theta]]_vars

\* C21: in every frame the eye is (cam.x, altitude + 2.0, cam.z) as the
\* GLfloat arguments of the look-at, for the altitude of the pose at the
\* time of the draw, and its height is exactly 2.0 off the terrain; the
\* offset from eye to target is (-sin(theta), -cos(theta)) to within one
\* spacing of the GLfloat values at the target's coordinate, the target
\* being a GLfloat; and a forward-only tick adds -dt*5*sin(theta) and
\* -dt*5*cos(theta) for the same theta, so that on neither axis does it
\* displace the camera against the offset the view has at that pose.
C21_ViewOffsetWithinUlp ==
  /\ [](frame # NoFrame =>
          LET f == frame[1]
              k == TrigOne \div PosOne
              v == ViewOffset(f.look)
          IN /\ f.alt = heightMapAltitude(_cam.x, _cam.z, Land)
             /\ f.look.ex = _cam.x * k /\ f.look.ez = _cam.z * k
             /\ f.look.ey = ToGLfloat((f.alt.y + 2 * HOne) * QMul)
             /\ f.alt.read = -1 => f.look.ey = 2 * YOne
             /\ Abs(v.x + sin(_cam.theta))
                  <= UlpOf(Abs(f.look.ex - sin(_cam.theta)))
             /\ Abs(v.z + cos(_cam.theta))
                  <= UlpOf(Abs(f.look.ez - cos(_cam.theta))))
  /\ [][(TickStep /\ OnlyKey(_keys, KUP)) =>
          LET v == ViewOffset(ViewOf(_cam))
          IN /\ _cam' = [x |-> ToGLfloat(_cam.x
                                          - Step(TickDt, sin(_cam.theta))),
                          z |-> ToGLfloat(_cam.z
                                          - Step(TickDt, cos(_cam.theta))),
                          theta |-> _cam.theta]
             /\ (_cam'.x - _cam.x) * v.x >= 0
             /\ (_cam'.z - _cam.z) * v.z >= 0
             /\ (_cam'.x # _cam.x /\ v.x # 0) =>
                  Sign(_cam'.x - _cam.x) = Sign(-sin(_cam.theta))
             /\ (_cam'.z # _cam.z /\ v.z # 0) =>
                  Sign(_cam'.z - _cam.z) = Sign(-cos(_cam.theta))]_vars

\* a frame drawn right after a forward-only tick that moved the camera, on
\* the terrain and above its zero level: the eye is over the new position
\* and the offset to the target is not (-sin(theta), -cos(theta)) exactly
C21_Witness ==
  /\ frame # NoFrame /\ last.op = "idle" /\ OnlyKey(_keys, KUP)
  /\ trip.phase = "fwd" /\ (_cam.x # trip.x0 \/ _cam.z # trip.z0)
  /\ frame[1].alt.read # -1 /\ frame[1].alt.y # 0
  /\ frame[1].look.ex = _cam.x * (TrigOne \div PosOne)
  /\ ViewOffset(frame[1].look) # [x |-> -sin(_cam.theta),
                                  z |-> -cos(_cam.theta)]

====
